------------------------------- MODULE JoinFee -------------------------------
(***************************************************************************)
(* Joining a show round of the sidecar by paying its fee over x402: the    *)
(* wallet has sent USDC to the treasury and posts the signature of that    *)
(* transfer.  The route looks at the round and at the signatures used so   *)
(* far, gives up the thread while the chain is asked about the transfer,   *)
(* then takes the seat.  Other requests and the operator come in between,  *)
(* and a restart forgets signatures, requests and timers, not rounds.      *)
(* When both drivers have entered, the round starts itself by a timer.     *)
(*                                                                         *)
(* Rounds here have no escrow on the chain (RoundChain has those).         *)
(* "fault:" marks wrong variants.                                          *)
(***************************************************************************)
EXTENDS Naturals, FiniteSets

CONSTANTS
    Wallets, NoWallet,
    Rounds,         \* ids of rounds
    Transfers,      \* settled USDC transfers to the treasury, of the fee or more
    Payer,          \* transfer -> the wallet that paid
    Exact,          \* the transfers of exactly the fee
    Posts,          \* <<wallet, transfer>>: a join of the wallet may post the transfer
    Requests,       \* join requests served at once
    MaxByHand,      \* bound: operator steps
    MaxRestarts     \* bound: restarts of the sidecar

ASSUME JoinAssumption ==
    /\ NoWallet \notin Wallets
    /\ Payer \in [Transfers -> Wallets]
    /\ Exact \subseteq Transfers /\ Posts \subseteq Wallets \X Transfers
    /\ Transfers \intersect {"unpaid", "manual", "x402"} = {}
    /\ MaxByHand \in Nat /\ MaxRestarts \in Nat

VARIABLES
    round,          \* id -> round, in memory and on disk alike
    used,           \* usedSignatures
    armed,          \* rounds with a timer in autoStartTimers
    req,            \* request -> the join it holds across the await
    hand,           \* history: operator steps taken
    restarts,       \* history: restarts
    excused,        \* history: transfers two requests verified at once, or used before a restart
    disturbed       \* history: rounds driven by hand, restarted, or whose timer fired early

joinVars == <<round, used, armed, req, hand, restarts, excused, disturbed>>

Slots == {0, 1}

\* The fee of a seat: not paid, paid outside x402, by x402 without a transfer on
\* record (show-enter, or fee-paid saying so), or by a transfer.
FeeStates == {"unpaid", "manual", "x402"} \union Transfers
Statuses == {"accepted", "ready", "locked", "countdown", "racing", "canceled"}
Round == [status : Statuses, wallet : [Slots -> Wallets \union {NoWallet}],
          fee : [Slots -> FeeStates], staked : [Slots -> BOOLEAN]]

Idle == [at |-> "idle"]
Join == [at : {"verifying"}, round : Rounds, slot : Slots, wallet : Wallets,
         transfer : Transfers, fresh : BOOLEAN]

\* createRound without a wallet.
NewRound == [status |-> "accepted", wallet |-> [s \in Slots |-> NoWallet],
             fee |-> [s \in Slots |-> "unpaid"], staked |-> [s \in Slots |-> FALSE]]

JoinInit ==
    /\ round = [r \in Rounds |-> NewRound]
    /\ used = {} /\ armed = {}
    /\ req = [h \in Requests |-> Idle]
    /\ hand = 0 /\ restarts = 0 /\ excused = {} /\ disturbed = {}

Joinable(rd) == rd.status \in {"accepted", "ready"}
Claimed(rd, s) == rd.wallet[s] # NoWallet
Entered(rd) == \A s \in Slots : rd.fee[s] # "unpaid" /\ rd.staked[s]

updateReady(rd) == IF Joinable(rd) /\ Entered(rd) THEN [rd EXCEPT !.status = "ready"] ELSE rd

MayClaim(rd, s, w) ==
    /\ Joinable(rd)
    /\ rd.wallet[s] \in {NoWallet, w}
    /\ rd.wallet[1 - s] # w

claimSlot(rd, s, w) == [rd EXCEPT !.wallet[s] = w]
markFeePaid(rd, s, f) == updateReady([rd EXCEPT !.fee[s] = f])
authorizeStake(rd, s) == updateReady([rd EXCEPT !.staked[s] = TRUE])

isShowRaceReady(rd) ==
    \A s \in Slots : /\ Claimed(rd, s) /\ rd.staked[s]
                     /\ rd.fee[s] \in {"x402"} \union Transfers

StartsShow(r, rd) == r \notin armed /\ rd.status = "ready" /\ isShowRaceReady(rd)

\* Round r becomes rd.  A request that waits on r is no longer fresh.
Becomes(r, rd, now) ==
    /\ round' = [round EXCEPT ![r] = rd]
    /\ req' = [h \in Requests |->
                 IF now[h].at = "verifying" /\ now[h].round = r /\ rd # round[r]
                 THEN [now[h] EXCEPT !.fresh = FALSE] ELSE now[h]]

\* The same, followed by maybeAutoStartShowRound: lock, countdown and timer at once.
BecomesOrStarts(r, rd, now) ==
    LET starts == StartsShow(r, rd)
    IN  /\ Becomes(r, IF starts THEN [rd EXCEPT !.status = "countdown"] ELSE rd, now)
        /\ armed' = IF starts THEN armed \union {r} ELSE armed

-----------------------------------------------------------------------------
\* The join route: preflightRaceJoinFee, solanaPaymentGate, recordRaceJoinFee.

PassesPreflightAlone(rd, s, w) ==  \* fault: does not look at the other seat
    /\ Joinable(rd)
    /\ rd.fee[s] = "unpaid"
    /\ rd.wallet[s] \in {NoWallet, w}

PassesPreflight(rd, s, w) ==
    /\ Joinable(rd)
    /\ rd.fee[s] = "unpaid"
    /\ rd.wallet[s] \in {NoWallet, w}
    /\ rd.wallet[1 - s] # w

UnusedNever(g) == TRUE  \* fault: the gate does not look the signature up

Unused(g) == g \notin used

\* Up to the await.  Refused requests change nothing and are left out.
ask(h, r, s, w, g) ==
    /\ req[h] = Idle /\ <<w, g>> \in Posts
    /\ PassesPreflight(round[r], s, w)
    /\ Unused(g)
    /\ req' = [req EXCEPT ![h] = [at |-> "verifying", round |-> r, slot |-> s, wallet |-> w,
                                  transfer |-> g, fresh |-> TRUE]]
    /\ excused' = IF \E i \in Requests : req[i].at = "verifying" /\ req[i].transfer = g
                  THEN excused \union {g} ELSE excused
    /\ UNCHANGED <<round, used, armed, hand, restarts, disturbed>>

\* The chain was out of reach or did not know the transfer (yet): 402.
verifyFails(h) ==
    /\ req[h] # Idle
    /\ req' = [req EXCEPT ![h] = Idle]
    /\ UNCHANGED <<round, used, armed, hand, restarts, excused, disturbed>>

\* Seat s of rd after claimSlot, when it has no wallet; Refused when that throws.
Seated(rd, s, w) == IF Claimed(rd, s) THEN rd ELSE claimSlot(rd, s, w)
MayTake(rd, s, w) == Claimed(rd, s) \/ MayClaim(rd, s, w)

StartsQuietly(r, rd, now) ==  \* fault: does not start the round
    Becomes(r, rd, now) /\ UNCHANGED armed

\* What recordRaceJoinFee does with the round once the fee is marked.
Joins(r, rd, now) == BecomesOrStarts(r, rd, now)

\* The chain vouches for the transfer: the signature is used up, and the record
\* handler runs at once.  It may take the seat and then refuse the payment.
verified(h) ==
    LET q  == req[h]
        rd == round[q.round]
        left == [req EXCEPT ![h] = Idle]
        seat == Seated(rd, q.slot, q.wallet)
        good == Payer[q.transfer] = q.wallet /\ q.transfer \in Exact
    IN  /\ q # Idle
        /\ used' = used \union {q.transfer}
        /\ IF ~MayTake(rd, q.slot, q.wallet) THEN req' = left /\ UNCHANGED <<round, armed>>
           ELSE IF good /\ Joinable(rd)
           THEN Joins(q.round, markFeePaid(seat, q.slot, q.transfer), left)
           ELSE Becomes(q.round, seat, left) /\ UNCHANGED armed
        /\ UNCHANGED <<hand, restarts, excused, disturbed>>

-----------------------------------------------------------------------------
\* The operator's routes.
ByHand == hand < MaxByHand /\ hand' = hand + 1 /\ UNCHANGED <<used, restarts, excused>>

claim_slot(r, s, w) ==
    /\ ByHand
    /\ MayClaim(round[r], s, w)
    /\ Becomes(r, claimSlot(round[r], s, w), req)
    /\ UNCHANGED <<armed, disturbed>>

\* The route of markFeePaid does not start the round.
fee_paid(r, s, f) ==
    /\ ByHand
    /\ Joinable(round[r])
    /\ Becomes(r, markFeePaid(round[r], s, f), req)
    /\ disturbed' = disturbed \union {r}
    /\ UNCHANGED armed

stake_authorize(r, s) ==
    /\ ByHand
    /\ Joinable(round[r])
    /\ BecomesOrStarts(r, authorizeStake(round[r], s), req)
    /\ UNCHANGED disturbed

\* ALLOW_SHOW_X402_FALLBACK: seat, fee and stake in one go.
show_enter(r, s, w) ==
    LET rd == IF Claimed(round[r], s) THEN round[r] ELSE claimSlot(round[r], s, w)
        paid == IF rd.fee[s] = "unpaid" THEN markFeePaid(rd, s, "x402") ELSE rd
    IN  /\ ByHand
        /\ Joinable(round[r])
        /\ \/ round[r].wallet[s] = w
           \/ ~Claimed(round[r], s) /\ MayClaim(round[r], s, w)
        /\ BecomesOrStarts(r, authorizeStake(paid, s), req)
        /\ UNCHANGED disturbed

\* lock (without the robots), countdown and start by hand, and cancel.
Steps == {<<"ready", "locked">>, <<"locked", "countdown">>, <<"countdown", "racing">>}
drive_by_hand(r) ==
    /\ ByHand
    /\ \/ \E st \in Steps : /\ round[r].status = st[1]
                            /\ Becomes(r, [round[r] EXCEPT !.status = st[2]], req)
       \/ /\ round[r].status # "canceled"
          /\ Becomes(r, [round[r] EXCEPT !.status = "canceled"], req)
    /\ disturbed' = disturbed \union {r}
    /\ UNCHANGED armed

-----------------------------------------------------------------------------
\* The timer callback: nothing if the round has left the countdown.
timer_fires(r) ==
    /\ r \in armed
    /\ armed' = armed \ {r}
    /\ IF round[r].status = "countdown"
       THEN Becomes(r, [round[r] EXCEPT !.status = "racing"], req)
       ELSE UNCHANGED <<round, req>>
    /\ UNCHANGED <<used, hand, restarts, excused, disturbed>>

\* setTimeout may fire a moment before the wall clock reaches roundStartsAt:
\* startRace throws, and the timer is gone.
timer_fires_early(r) ==
    /\ r \in armed
    /\ armed' = armed \ {r}
    /\ disturbed' = disturbed \union {r}
    /\ UNCHANGED <<round, used, req, hand, restarts, excused>>

restart ==
    /\ restarts < MaxRestarts
    /\ restarts' = restarts + 1
    /\ used' = {} /\ armed' = {}
    /\ req' = [h \in Requests |-> Idle]
    /\ excused' = excused \union used
    /\ disturbed' = Rounds
    /\ UNCHANGED <<round, hand>>

Operator(r, s) ==
    \/ \E w \in Wallets : claim_slot(r, s, w) \/ show_enter(r, s, w)
    \/ \E f \in {"manual", "x402"} : fee_paid(r, s, f)
    \/ stake_authorize(r, s)

JoinNext ==
    \/ \E h \in Requests :
          \/ \E r \in Rounds, s \in Slots, w \in Wallets, g \in Transfers : ask(h, r, s, w, g)
          \/ verifyFails(h) \/ verified(h)
    \/ \E r \in Rounds :
          \/ \E s \in Slots : Operator(r, s)
          \/ drive_by_hand(r) \/ timer_fires(r) \/ timer_fires_early(r)
    \/ restart

\* Timers fire; nothing else is owed.
JoinSpec == JoinInit /\ [][JoinNext]_joinVars /\ \A r \in Rounds : WF_joinVars(timer_fires(r))

-----------------------------------------------------------------------------
JoinTypeOK ==
    /\ round \in [Rounds -> Round]
    /\ used \subseteq Transfers /\ armed \subseteq Rounds
    /\ req \in [Requests -> {Idle} \union Join]
    /\ hand \in 0..MaxByHand /\ restarts \in 0..MaxRestarts
    /\ excused \subseteq Transfers /\ disturbed \subseteq Rounds

\* The seats the treasury ledger shows as reconciled with transfer g.
Reconciled(g) == {rs \in Rounds \X Slots : round[rs[1]].fee[rs[2]] = g}

\* solana-x402.ts line 22: settled signatures are single-use.  One transfer backs
\* one entry of the treasury ledger, unless two requests verified it at the same
\* time or a restart forgot that it was used.
BoughtOnce == \A g \in Transfers \ excused : Cardinality(Reconciled(g)) <= 1

\* A payment of the joined wallet, of exactly the fee, is not used up for nothing:
\* if nobody touched the round while the chain was asked, it takes the seat.
PaymentTakesSeat ==
    [][\A h \in Requests :
         LET q == req[h]
             settled == q # Idle /\ req'[h] = Idle /\ q.transfer \in used' /\ Unused(q.transfer)
         IN  settled /\ q.fresh /\ Payer[q.transfer] = q.wallet /\ q.transfer \in Exact =>
               /\ round'[q.round].wallet[q.slot] = q.wallet
               /\ round'[q.round].fee[q.slot] = q.transfer]_joinVars

\* Once both drivers have entered a show round, by whichever routes and in
\* whichever order, it starts by itself, unless an operator took it over, the
\* sidecar restarted or the timer fired early.
ShowRoundStarts ==
    \A r \in Rounds :
        (round[r].status \in {"ready", "countdown"} /\ isShowRaceReady(round[r]))
            ~> (round[r].status \in {"racing", "locked", "canceled"} \/ r \in disturbed)

\* index.ts line 1668: "x402 payer does not match joined wallet".  A seat paid by a
\* transfer belongs to the wallet that paid.
PayerHoldsSeat ==
    \A r \in Rounds, s \in Slots :
        round[r].fee[s] \in Transfers => Payer[round[r].fee[s]] = round[r].wallet[s]
=============================================================================
