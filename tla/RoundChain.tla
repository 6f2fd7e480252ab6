----------------------------- MODULE RoundChain -----------------------------
(***************************************************************************)
(* A race round of the sidecar and its escrow on the chain.  The round is  *)
(* kept in memory and, after most changes, on disk; the escrow is          *)
(* RaceEscrow.  Route handlers share one thread but give it up at each     *)
(* await, so a handler is a sequence of steps: look at the round, send a   *)
(* transaction, mark the round when the answer comes.  In between other    *)
(* handlers run, answers get lost, and the process may crash and reload    *)
(* the round from disk.                                                    *)
(*                                                                         *)
(* Slot 0 is the challenger, 1 the opponent.  Wall-clock guards (the       *)
(* challenge has not expired, the countdown is over) are left open: time   *)
(* may have passed.  "fault:" marks wrong variants, as in RaceEscrow.      *)
(***************************************************************************)
EXTENDS Naturals, FiniteSets

CONSTANTS Drivers, NoDriver, Keys, NoRace, MaxRaces, Stakes, Fees, Balances, U64Max
VARIABLES races, vault, wallet, treasury, facilitator, next_race_id, total_fees
chain == <<races, vault, wallet, treasury, facilitator, next_race_id, total_fees>>
Chain == INSTANCE RaceEscrow

CONSTANTS
    Requests,       \* requests the sidecar serves at once
    NoWinner,       \* value of round.winner before there is one
    Payments,       \* bound: the ways a fee is paid before the chain join
    MaxTrouble      \* bound: how many crashes, lost answers and seats taken
                    \* without the sidecar, together

ASSUME RoundAssumption ==
    /\ NoWinner \notin Chain!Slots
    /\ Payments \subseteq {"x402", "pending", "other"}
    /\ MaxTrouble \in Nat

\* What the escrow assumes of its constants; and "no race" is no race id.
ASSUME ChainAssumption ==
    /\ NoDriver \notin Drivers
    /\ MaxRaces \in Nat /\ U64Max \in Nat
    /\ Stakes \subseteq 0..U64Max /\ Fees \subseteq 0..U64Max /\ Balances \subseteq 0..U64Max
    /\ NoRace \notin Chain!Race /\ NoRace \notin Chain!RaceIds

VARIABLES
    round,          \* the round in memory
    saved,          \* the round on disk
    req,            \* request -> where its handler is and what it holds
    lost,           \* crashes and lost answers so far
    outside         \* history: the seats that a join the sidecar did not send took

sidecar == <<round, saved, req, lost>>
vars == <<chain, sidecar, outside>>

Slots == Chain!Slots
RaceIds == Chain!RaceIds
Statuses == {"challenge", "accepted", "ready", "locked", "countdown", "racing",
             "finished", "settled", "canceled"}
ChainStatuses == {"not-opened", "opened", "joined", "locked", "started", "finished",
                  "settled", "canceled"}
\* feePaid with feePayment: paid by x402, x402 not settled yet, or any other way.
FeeStates == {"unpaid", "x402", "pending", "other"}
Round == [status : Statuses, chainStatus : ChainStatuses,
          chainRaceId : RaceIds \cup {NoRace}, winner : Slots \cup {NoWinner},
          driver : [Slots -> Drivers \cup {NoDriver}],
          fee : [Slots -> FeeStates], stakeAuthorized : [Slots -> BOOLEAN],
          chainJoined : [Slots -> BOOLEAN]]

Ops == {"none", "open", "join", "lock", "start", "finish-chain", "settle", "cancel",
        "finish", "choose", "operator", "authorize"}
Places == {"idle", "fetch", "tx", "answer", "camera", "robots", "unheard"}
Request == [op : Ops, at : Places, slot : Slots, race : RaceIds \cup {NoRace},
            winner : Slots \cup {NoWinner}, driver : [Slots -> Drivers \cup {NoDriver}]]
Nobody == [slot \in Slots |-> NoDriver]
Idle == [op |-> "none", at |-> "idle", slot |-> 0, race |-> NoRace,
         winner |-> NoWinner, driver |-> Nobody]

Persist(r) == round' = r /\ saved' = r       \* persistSnapshot
Free(h) == req[h].at = "idle"
Ends(h) == req' = [req EXCEPT ![h] = Idle]
\* An await, with the part of its snapshot of the round a handler still uses.
Waits(h, op, at, slot, winner) ==
    LET names == CASE op = "join" -> {slot} [] op = "settle" -> {winner}
                   [] op = "cancel" -> Slots [] OTHER -> {}
    IN  req' = [req EXCEPT ![h] =
                  [op |-> op, at |-> at, slot |-> slot, winner |-> winner,
                   race |-> IF at = "tx" THEN round.chainRaceId ELSE NoRace,
                   driver |-> [s \in Slots |-> IF s \in names THEN round.driver[s]
                                               ELSE NoDriver]]]

\* createRound, with the wallet of the challenger or without any.
NewRound(status, d) ==
    [status |-> status, chainStatus |-> "not-opened", chainRaceId |-> NoRace,
     winner |-> NoWinner, driver |-> [Nobody EXCEPT ![0] = d],
     fee |-> [slot \in Slots |-> "unpaid"],
     stakeAuthorized |-> [slot \in Slots |-> FALSE],
     chainJoined |-> [slot \in Slots |-> FALSE]]

Init ==
    /\ Chain!Init
    /\ \/ \E d \in Drivers : round = NewRound("challenge", d)
       \/ round = NewRound("accepted", NoDriver)
    /\ saved = round
    /\ req = [h \in Requests |-> Idle]
    /\ lost = 0
    /\ outside = {}

-----------------------------------------------------------------------------
\* The lobby: synchronous operations of rounds.ts.
acceptRound(d) ==
    /\ round.status = "challenge"
    /\ d # round.driver[0]
    /\ Persist([round EXCEPT !.driver[1] = d, !.fee[1] = "unpaid",
                             !.stakeAuthorized[1] = FALSE, !.chainJoined[1] = FALSE,
                             !.status = "accepted"])
    /\ UNCHANGED <<chain, req, lost, outside>>

MayClaimAnyone(slot, d) ==  \* fault: takes over a slot that is claimed already
    /\ ~round.chainJoined[slot]
    /\ round.driver[1 - slot] # d

MayClaim(slot, d) ==
    /\ ~round.chainJoined[slot]
    /\ round.driver[slot] \in {NoDriver, d}
    /\ round.driver[1 - slot] # d

claimSlot(slot, d) ==
    /\ round.status \in {"challenge", "accepted", "ready"}
    /\ MayClaim(slot, d)
    /\ LET r == [round EXCEPT !.driver[slot] = d]
           full == \A s \in Slots : r.driver[s] # NoDriver
       IN  Persist([r EXCEPT !.status =
                      IF full /\ @ = "challenge" THEN "accepted" ELSE @])
    /\ UNCHANGED <<chain, req, lost, outside>>

Entered(r) == \A slot \in Slots : r.fee[slot] # "unpaid" /\ r.stakeAuthorized[slot]
updateReady(r) ==
    IF r.status \in {"accepted", "ready"} /\ Entered(r) THEN [r EXCEPT !.status = "ready"] ELSE r

requireJoinable == round.status \in {"accepted", "ready"}

markFeePaid(slot, fee) ==
    /\ requireJoinable
    /\ Persist(updateReady([round EXCEPT !.fee[slot] = fee]))
    /\ UNCHANGED <<chain, req, lost, outside>>

authorizeStake(slot) ==
    /\ requireJoinable
    /\ Persist(updateReady([round EXCEPT !.stakeAuthorized[slot] = TRUE]))
    /\ UNCHANGED <<chain, req, lost, outside>>

MayLock == round.status = "ready"
           /\ (round.chainRaceId # NoRace => round.chainStatus = "locked")

lockRoundLocal ==
    /\ MayLock
    /\ Persist([round EXCEPT !.status = "locked"])
    /\ UNCHANGED <<chain, req, lost, outside>>

\* lockRound changes the round in memory, then waits for the robots; it saves
\* the round when they answered and leaves it changed when one failed.
lockRound(h) ==
    /\ Free(h) /\ MayLock
    /\ round' = [round EXCEPT !.status = "locked"]
    /\ Waits(h, "authorize", "robots", 0, NoWinner)
    /\ UNCHANGED <<chain, saved, lost, outside>>

authorizeRobots(h) ==
    /\ req[h].at = "robots"
    /\ saved' \in {round, saved}
    /\ Ends(h)
    /\ UNCHANGED <<chain, round, lost, outside>>

startCountdown ==
    /\ round.status = "locked"
    /\ Persist([round EXCEPT !.status = "countdown"])
    /\ UNCHANGED <<chain, req, lost, outside>>

startRace ==
    /\ round.status = "countdown"
    /\ Persist([round EXCEPT !.status = "racing"])
    /\ UNCHANGED <<chain, req, lost, outside>>

MayCancel == round.status \notin {"finished", "settled", "canceled"}

cancelRound ==
    /\ MayCancel
    /\ Persist([round EXCEPT !.status = "canceled"])
    /\ UNCHANGED <<chain, req, lost, outside>>

-----------------------------------------------------------------------------
\* The verdict: the handlers wait for a camera frame, then set the winner.
finishRound(r, w) == [r EXCEPT !.status = "finished", !.winner = w]

MayChooseAgain(w) ==  \* fault: a finished round takes another winner
    round.status \in {"accepted", "ready", "locked", "countdown", "racing", "finished"}

MayChoose(w) ==
    /\ round.winner \in {NoWinner, w}
    /\ round.status \in {"accepted", "ready", "locked", "countdown", "racing"}

\* operatorSettlementPreflight has no blockers.
canSettle(r, w) ==
    /\ \A slot \in Slots : /\ r.driver[slot] # NoDriver /\ r.fee[slot] = "x402"
                           /\ r.stakeAuthorized[slot] /\ r.chainJoined[slot]
    /\ r.winner \in {NoWinner, w}
    /\ r.chainRaceId # NoRace
    /\ r.status \in {"racing", "finished", "settled"}
    /\ r.chainStatus \in {"started", "finished", "settled"}

\* The chain half of settleOperatorWinner, on a finished round.
SettlesOnChain(h, r) ==
    CASE r.chainStatus = "started" -> Waits(h, "finish-chain", "tx", 0, r.winner)
      [] r.chainStatus = "finished" -> Waits(h, "settle", "tx", 0, r.winner)
      [] OTHER -> Ends(h)

finish(h, w) ==
    /\ Free(h)
    /\ Waits(h, "finish", "camera", 0, w)
    /\ UNCHANGED <<chain, round, saved, lost, outside>>

choose_winner(h, w) ==
    /\ Free(h) /\ ~canSettle(round, w)
    /\ Waits(h, "choose", "camera", 0, w)
    /\ UNCHANGED <<chain, round, saved, lost, outside>>

settle_winner(h, w) ==
    /\ Free(h) /\ canSettle(round, w)
    /\ \/ round.status = "racing" /\ Waits(h, "operator", "camera", 0, w)
       \/ round.status = "finished" /\ SettlesOnChain(h, round)
    /\ UNCHANGED <<chain, round, saved, lost, outside>>

camera_frame(h) ==
    /\ req[h].at = "camera"
    /\ LET w == req[h].winner
           r == finishRound(round, w)
       IN  \/ /\ req[h].op = "finish" /\ round.status = "racing"
              /\ Persist(r) /\ Ends(h)
           \/ /\ req[h].op = "operator" /\ round.status = "racing"
              /\ Persist(r) /\ SettlesOnChain(h, r)
           \/ /\ req[h].op = "choose" /\ MayChoose(w)
              /\ Persist(r)
              /\ IF canSettle(r, w) THEN SettlesOnChain(h, r) ELSE Ends(h)
           \/ /\ req[h].op = "choose" /\ round.winner = w
              /\ round.status \in {"finished", "settled"}
              /\ Persist(round)              \* markEvidenceHashes
              /\ IF canSettle(round, w) /\ round.status = "finished"
                 THEN SettlesOnChain(h, round) ELSE Ends(h)
    /\ UNCHANGED <<chain, lost, outside>>

-----------------------------------------------------------------------------
\* The chain routes look at the round and send a transaction.
chain_open(h) ==
    /\ Free(h)
    /\ round.chainRaceId = NoRace
    /\ Waits(h, "open", "fetch", 0, NoWinner)
    /\ UNCHANGED <<chain, round, saved, lost, outside>>

fetch_next_race_id(h) ==
    /\ req[h].at = "fetch"
    /\ next_race_id \in RaceIds
    /\ req' = [req EXCEPT ![h].at = "tx", ![h].race = next_race_id]
    /\ UNCHANGED <<chain, round, saved, lost, outside>>

\* With a race attached already, openRoundOnChain sends nothing.
chain_open_again ==
    /\ round.chainRaceId # NoRace
    /\ Persist([round EXCEPT !.chainStatus = "opened"])
    /\ UNCHANGED <<chain, req, lost, outside>>

chain_join(h, slot) ==
    /\ Free(h)
    /\ round.chainRaceId # NoRace /\ round.driver[slot] # NoDriver
    /\ Waits(h, "join", "tx", slot, NoWinner)
    /\ UNCHANGED <<chain, round, saved, lost, outside>>

chain_step(h, op) ==
    /\ Free(h)
    /\ op \in {"lock", "start", "cancel"}
    /\ round.chainRaceId # NoRace
    /\ Waits(h, op, "tx", 0, NoWinner)
    /\ UNCHANGED <<chain, round, saved, lost, outside>>

chain_settle_asked(h) ==  \* fault: the winner of the request, without the round's
    /\ Free(h)
    /\ round.chainRaceId # NoRace
    /\ \E w \in Slots : Waits(h, "finish-chain", "tx", 0, w)
    /\ UNCHANGED <<chain, round, saved, lost, outside>>

chain_settle(h) ==
    /\ Free(h)
    /\ round.chainRaceId # NoRace
    /\ round.winner # NoWinner /\ round.driver[round.winner] # NoDriver
    /\ Waits(h, IF round.chainStatus = "started" THEN "finish-chain" ELSE "settle",
             "tx", 0, round.winner)
    /\ UNCHANGED <<chain, round, saved, lost, outside>>

\* What the program does with the transaction of a request.  The token accounts
\* are those of the wallets in the snapshot, and must be the seated drivers'.
Transaction(q) ==
    \E k \in Keys :
      \/ q.op = "open" /\ \E stake \in Stakes, fee \in Fees :
                             Chain!open_race(k, q.race, stake, fee)
      \/ q.op = "join" /\ Chain!join_race(q.driver[q.slot], q.race, q.slot)
      \/ q.op = "lock" /\ Chain!lock_race(k, q.race)
      \/ q.op = "start" /\ Chain!start_race(k, q.race)
      \/ q.op = "finish-chain" /\ Chain!finish_race(k, q.race, q.winner)
      \/ /\ q.op = "settle" /\ Chain!settle_race(k, q.race)
         /\ races[q.race].seat[races[q.race].winner_slot] = q.driver[q.winner]
      \/ /\ q.op = "cancel" /\ Chain!cancel_race(k, q.race)
         /\ \A slot \in Slots : races[q.race].seat[slot] \in {NoDriver, q.driver[slot]}

tx_lands(h) ==
    /\ req[h].at \in {"tx", "unheard"}
    /\ Transaction(req[h])
    /\ req' = [req EXCEPT ![h] = IF @.at = "tx" THEN [@ EXCEPT !.at = "answer"] ELSE Idle]
    /\ UNCHANGED <<round, saved, lost, outside>>

AfterFailureSettled(h) ==  \* fault: a refused settle is taken for one that was done before
    IF req[h].op = "settle" THEN req' = [req EXCEPT ![h].at = "answer"] ELSE Ends(h)

AfterFailure(h) == Ends(h)

\* The program or the network refuses it, and the handler throws.  A check of
\* the round may also fail in the handler itself (a mark or the camera's).
tx_fails(h) ==
    /\ req[h].at = "tx"
    /\ AfterFailure(h)
    /\ UNCHANGED <<chain, round, saved, lost, outside>>

gives_up(h) ==
    /\ req[h].at \in {"fetch", "camera", "unheard"}
    /\ Ends(h)
    /\ UNCHANGED <<chain, round, saved, lost, outside>>

-----------------------------------------------------------------------------
\* The answers: rounds.ts marks the round, or throws when its guard fails.
MayAttachAny(id) == TRUE  \* fault: replaces the race of the round

MayAttach(id) == round.chainRaceId \in {NoRace, id}

AttachedNext(id) == next_race_id  \* fault: the id is read after the transaction

Attached(id) == id

attachChainRace(h) ==
    /\ req[h].op = "open" /\ MayAttach(req[h].race)
    /\ Persist([round EXCEPT !.chainRaceId = Attached(req[h].race), !.chainStatus = "opened"])
    /\ Ends(h)

StatusAfterJoinEarly(r) == "joined"  \* fault: does not wait for the other driver

StatusAfterJoin(r) == IF \A slot \in Slots : r.chainJoined[slot] THEN "joined" ELSE "opened"

\* A pending x402 fee un-pays the driver, any other fee counts as paid.
FeeAfterJoin(fee) ==
    CASE fee = "pending" -> "unpaid" [] fee = "x402" -> "x402" [] OTHER -> "other"

markChainJoined(h) ==
    /\ req[h].op = "join"
    /\ LET slot == req[h].slot
           r == [round EXCEPT !.chainJoined[slot] = TRUE, !.fee[slot] = FeeAfterJoin(@),
                              !.stakeAuthorized[slot] = TRUE]
       IN  Persist(updateReady([r EXCEPT !.chainStatus = StatusAfterJoin(r)]))
    /\ Ends(h)

markChainLocked(h) ==
    /\ req[h].op = "lock" /\ round.chainStatus = "joined"
    /\ Persist([round EXCEPT !.chainStatus = "locked"])
    /\ Ends(h)

markChainStarted(h) ==
    /\ req[h].op = "start" /\ round.chainStatus = "locked"
    /\ Persist([round EXCEPT !.chainStatus = "started"])
    /\ Ends(h)

\* The same handler goes on to settle, with the winner it has.
markChainFinished(h) ==
    /\ req[h].op = "finish-chain" /\ round.chainStatus = "started"
    /\ Persist([round EXCEPT !.chainStatus = "finished"])
    /\ Waits(h, "settle", "tx", 0, round.winner)

markChainSettled(h) ==
    /\ req[h].op = "settle" /\ round.status \in {"finished", "settled"}
    /\ Persist([round EXCEPT !.chainStatus = "settled", !.status = "settled"])
    /\ Ends(h)

markChainCanceled(h) ==
    /\ req[h].op = "cancel"
    /\ Persist([round EXCEPT !.chainStatus = "canceled", !.status = "canceled"])
    /\ Ends(h)

Marks(h) ==
    \/ attachChainRace(h) \/ markChainJoined(h) \/ markChainLocked(h)
    \/ markChainStarted(h) \/ markChainFinished(h) \/ markChainSettled(h)
    \/ markChainCanceled(h)

Refused(h) ==  \* the mark throws
    CASE req[h].op = "open" -> ~MayAttach(req[h].race)
      [] req[h].op = "lock" -> round.chainStatus # "joined"
      [] req[h].op = "start" -> round.chainStatus # "locked"
      [] req[h].op = "finish-chain" -> round.chainStatus # "started"
      [] req[h].op = "settle" -> round.status \notin {"finished", "settled"}
      [] OTHER -> FALSE

answer(h) ==
    /\ req[h].at = "answer"
    /\ \/ Marks(h)
       \/ Refused(h) /\ Ends(h) /\ UNCHANGED <<round, saved>>
    /\ UNCHANGED <<chain, lost, outside>>

-----------------------------------------------------------------------------
\* The environment.
MayTrouble == lost + Cardinality(outside) < MaxTrouble
MayLose == MayTrouble /\ lost' = lost + 1 /\ UNCHANGED outside

\* The answer never comes; the transaction may still land.
answer_lost(h) ==
    /\ MayLose
    /\ \/ req[h].at = "tx" /\ req' = [req EXCEPT ![h].at = "unheard"]
       \/ req[h].at = "answer" /\ Ends(h)
    /\ UNCHANGED <<chain, round, saved>>

\* The process dies and reloads the round; transactions under way may land.
crash ==
    /\ MayLose
    /\ round' = saved
    /\ req' = [h \in Requests |->
                 IF req[h].at \in {"tx", "unheard"} THEN [req[h] EXCEPT !.at = "unheard"] ELSE Idle]
    /\ UNCHANGED <<chain, saved>>

\* Somebody else's race takes the next id.
other_race ==
    /\ \E k \in Keys, id \in RaceIds, stake \in Stakes, fee \in Fees :
          Chain!open_race(k, id, stake, fee)
    /\ UNCHANGED <<sidecar, outside>>

\* A wallet takes a seat by itself: a driver's phone that submits the
\* instruction it was given, or anybody else, since join_race asks for no more
\* than the signature of the wallet that pays.  The sidecar is not told.
other_join ==
    /\ MayTrouble
    /\ \E d \in Drivers, id \in RaceIds, slot \in Slots :
          /\ Chain!join_race(d, id, slot)
          /\ outside' = outside \cup {<<id, slot>>}
    /\ UNCHANGED sidecar

Next ==
    \/ \E d \in Drivers : acceptRound(d) \/ \E slot \in Slots : claimSlot(slot, d)
    \/ \E slot \in Slots : authorizeStake(slot)
                           \/ \E fee \in Payments : markFeePaid(slot, fee)
    \/ lockRoundLocal \/ startCountdown \/ startRace \/ cancelRound \/ chain_open_again
    \/ \E h \in Requests :
          \/ lockRound(h) \/ authorizeRobots(h)
          \/ \E w \in Slots : finish(h, w) \/ choose_winner(h, w) \/ settle_winner(h, w)
          \/ camera_frame(h)
          \/ chain_open(h) \/ fetch_next_race_id(h)
          \/ \E slot \in Slots : chain_join(h, slot)
          \/ \E op \in {"lock", "start", "cancel"} : chain_step(h, op)
          \/ chain_settle(h)
          \/ tx_lands(h) \/ tx_fails(h) \/ gives_up(h) \/ answer(h) \/ answer_lost(h)
    \/ crash
    \/ other_race
    \/ other_join

Spec == Init /\ [][Next]_vars
-----------------------------------------------------------------------------
\* Type correctness of the round, the requests and the escrow.
TypeOK ==
    /\ Chain!TypeOK
    /\ round \in Round /\ saved \in Round
    /\ req \in [Requests -> Request]
    /\ lost \in Nat
    /\ outside \subseteq RaceIds \X Slots

Ours(r) == r.chainRaceId # NoRace
Race(r) == races[r.chainRaceId]

\* A seat that a join of the sidecar took.
Seated(id, slot) ==
    races[id] # NoRace /\ Chain!Joined(races[id], slot) /\ <<id, slot>> \notin outside

\* The sidecar never puts a stake into a race it does not know: a vault that
\* holds the stake of a join it sent is that of the round's race, on disk too,
\* however often the open was repeated, lost or overtaken.  (It reaches a race
\* only through chainRaceId.)
StakesReachable ==
    \A id \in RaceIds, slot \in Slots :
        Seated(id, slot) => round.chainRaceId = id /\ saved.chainRaceId = id

\* The seats the sidecar took are held by the wallets of the round, on disk too,
\* and a driver it calls joined holds the seat, whoever else joins the race:
\* the settle and cancel transactions name the token accounts of those wallets,
\* and settle-winner goes ahead only with both drivers joined.
SeatsAreDrivers ==
    \A r \in {round, saved}, slot \in Slots :
        /\ Ours(r) /\ Seated(r.chainRaceId, slot) =>
              Race(r).seat[slot] = r.driver[slot]
        /\ r.chainJoined[slot] => Ours(r) /\ Race(r).seat[slot] = r.driver[slot]

Reached(chain_status) ==  \* the statuses a race passes on its way there, and beyond
    CASE chain_status = "opened" -> Chain!Status
      [] chain_status = "joined" -> Chain!Status \ {"Created"}
      [] chain_status = "locked" -> {"Locked", "Started", "Finished", "Settled", "Canceled"}
      [] chain_status = "started" -> {"Started", "Finished", "Settled", "Canceled"}
      [] chain_status = "finished" -> {"Finished", "Settled"}
      [] chain_status = "settled" -> {"Settled"}
      [] chain_status = "canceled" -> {"Canceled"}

\* The sidecar never believes the escrow to be further than it is, and a driver
\* it calls joined has a seat.  (It may believe it less far.)
NeverAhead ==
    \A r \in {round, saved} :
        /\ r.chainStatus # "not-opened" => Ours(r) /\ Race(r).status \in Reached(r.chainStatus)
        /\ \A slot \in Slots : r.chainJoined[slot] => Chain!Joined(Race(r), slot)

\* The winner the escrow pays is the round's, and is on disk.
WinnerAgrees ==
    Ours(round) /\ Race(round).status \in {"Finished", "Settled"} =>
        round.winner = Race(round).winner_slot /\ saved.winner = round.winner

\* A settled round has been paid out by its escrow.
SettledIsPaid ==
    round.status = "settled" => Ours(round) /\ Race(round).status = "Settled"

\* The outcome of a round sticks, over crashes too: a winner is not replaced and
\* a settled round stays settled, whatever marks arrive late.
OutcomeSticks ==
    [][/\ round.winner # NoWinner => round'.winner = round.winner
       /\ round.status = "settled" => round'.status = "settled"
       /\ round.status = "finished" => round'.status \in {"finished", "settled", "canceled"}]_vars

Quiet == \A h \in Requests : Free(h)

\* docs/LOCAL_CHAIN_RACE_HARNESS.md, line 164: settle-winner idempotently
\* finishes and settles.  So when nothing is under way and the preflight lets a
\* settle-winner through, the finish_race it sends is not for an escrow that an
\* earlier one has finished already: finish_race refuses that.
SettleRetryPays ==
    Quiet /\ (\E w \in Slots : canSettle(round, w)) /\ round.chainStatus = "started"
        => Race(round).status # "Finished"
=============================================================================
