----------------------------- MODULE StakedRace -----------------------------
(***************************************************************************)
(* What a two-driver staked race promises, whoever runs it and however the *)
(* money is held in between: a driver who enters pays stake and fee; then  *)
(* either the race is decided between two entrants, and the winner gets    *)
(* both stakes, once; or it is called off while undecided, and each        *)
(* entrant gets the own stake back, once.  RaceEscrow implements it.       *)
(***************************************************************************)
EXTENDS Naturals

CONSTANTS Contests, Drivers, NoDriver, Stakes, Fees, Balances

VARIABLES
    phase,     \* contest -> how far it is
    entrant,   \* contest -> seat -> driver
    terms,     \* contest -> <<stake, fee>>
    winner,    \* contest -> the seat that won
    purse      \* driver -> the driver's money

svars == <<phase, entrant, terms, winner, purse>>

Seats == {0, 1}
Entered(c, s) == entrant[c][s] # NoDriver
Stake(c) == terms[c][1]
Fee(c) == terms[c][2]
ShareOf(c, d) == (IF entrant[c][0] = d THEN Stake(c) ELSE 0)
                 + (IF entrant[c][1] = d THEN Stake(c) ELSE 0)

SInit ==
    /\ phase = [c \in Contests |-> "none"]
    /\ entrant = [c \in Contests |-> [s \in Seats |-> NoDriver]]
    /\ terms = [c \in Contests |-> <<0, 0>>]
    /\ winner = [c \in Contests |-> 0]
    /\ purse \in [Drivers -> Balances]

Announce(c, stake, fee) ==
    /\ phase[c] = "none"
    /\ stake > 0
    /\ phase' = [phase EXCEPT ![c] = "open"]
    /\ terms' = [terms EXCEPT ![c] = <<stake, fee>>]
    /\ UNCHANGED <<entrant, winner, purse>>

Enter(c, s, d) ==
    /\ phase[c] = "open" /\ ~Entered(c, s)
    /\ purse[d] >= Stake(c) + Fee(c)
    /\ entrant' = [entrant EXCEPT ![c][s] = d]
    /\ purse' = [purse EXCEPT ![d] = @ - (Stake(c) + Fee(c))]
    /\ UNCHANGED <<phase, terms, winner>>

Decide(c, s) ==
    /\ phase[c] = "open"
    /\ Entered(c, 0) /\ Entered(c, 1)
    /\ phase' = [phase EXCEPT ![c] = "decided"]
    /\ winner' = [winner EXCEPT ![c] = s]
    /\ UNCHANGED <<entrant, terms, purse>>

PayWinner(c) ==
    /\ phase[c] = "decided"
    /\ phase' = [phase EXCEPT ![c] = "paid"]
    /\ purse' = [purse EXCEPT ![entrant[c][winner[c]]] = @ + 2 * Stake(c)]
    /\ UNCHANGED <<entrant, terms, winner>>

CallOff(c) ==
    /\ phase[c] = "open"
    /\ phase' = [phase EXCEPT ![c] = "calledOff"]
    /\ purse' = [d \in Drivers |-> purse[d] + ShareOf(c, d)]
    /\ UNCHANGED <<entrant, terms, winner>>

SNext == \E c \in Contests :
    \/ \E stake \in Stakes, fee \in Fees : Announce(c, stake, fee)
    \/ \E s \in Seats : Decide(c, s) \/ \E d \in Drivers : Enter(c, s, d)
    \/ PayWinner(c)
    \/ CallOff(c)

SSpec == SInit /\ [][SNext]_svars
=============================================================================
