----------------------------- MODULE ClankToken -----------------------------
(***************************************************************************)
(* The $CLANK mint as the clanker5000 program uses it: an SPL token whose  *)
(* mint authority is the program's PDA (init_token demands it), so tokens  *)
(* appear only where the program mints and vanish only where it burns.     *)
(* The token program and the clock are external; Emissions and PitFund     *)
(* share them through this module.                                         *)
(***************************************************************************)
EXTENDS Integers, FiniteSets, Sums

CONSTANTS
    People,     \* wallets: robot owners, clients, the market maker
    Genesis,    \* CLANK each of them holds before init_token
    LastTick    \* bound: where the clock stops

ASSUME ClankAssumption == IsFiniteSet(People) /\ Genesis \in Nat /\ LastTick \in Nat

VARIABLES
    clank,      \* wallet -> CLANK
    supply,     \* clank_mint.supply
    clock       \* Clock::get()

tokenVars == <<clank, supply, clock>>

TokenInit ==
    /\ clank = [p \in People |-> Genesis]
    /\ supply = SumOver(clank)
    /\ clock = 0

Credit(p, n) == clank' = [clank EXCEPT ![p] = @ + n]

\* token::transfer out of a wallet fails without the funds.
Debit(p, n) == clank[p] >= n /\ clank' = [clank EXCEPT ![p] = @ - n]

Tick ==
    /\ clock < LastTick
    /\ clock' = clock + 1
    /\ UNCHANGED <<clank, supply>>

TokenTypeOK ==
    /\ clank \in [People -> Nat]
    /\ supply \in Nat /\ clock \in Nat
=============================================================================
