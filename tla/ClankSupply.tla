---------------------------- MODULE ClankSupply ----------------------------
(***************************************************************************)
(* Everything the program does to the supply of its mint: Emissions mints  *)
(* CLANK into wallets, PitFund burns a part of what it buys, and disputes  *)
(* burn what was posted or bonded.  Staking and disputes, the subjects of  *)
(* StakePool and Slashing, are modelled by the CLANK they move between the *)
(* wallets and the stake and slash vaults; how much, and when, is open, so *)
(* that what a holder burns or sends to a vault by himself is covered.     *)
(***************************************************************************)
EXTENDS Emissions, PitFund

CONSTANTS
    Stakes,         \* amounts staked, bonded by a verifier, posted, returned or slashed
    MaxVaulted,     \* bound: CLANK in the two vaults
    MaxDestroyed    \* bound: CLANK burned out of them

ASSUME SupplyAssumption ==
    /\ Stakes \subseteq Nat
    /\ MaxVaulted \in Nat /\ MaxDestroyed \in Nat

VARIABLES
    vaulted,        \* CLANK in the stake vault, the slash vault and any account not below
    destroyed       \* history: CLANK burned out of them

vaultVars == <<vaulted, destroyed>>
supplyVars == <<tokenVars, emissionVars, pitVars, vaultVars>>

Init ==
    /\ TokenInit /\ EmissionsInit /\ PitInit
    /\ vaulted = 0 /\ destroyed = 0

\* stake, bond_verifier and open_dispute.
lock(p, n) ==
    /\ vaulted + n <= MaxVaulted
    /\ Debit(p, n)
    /\ vaulted' = vaulted + n
    /\ UNCHANGED <<destroyed, supply, clock>>

\* unstake and unbond_verifier: to any account of the mint.
unlock(p, n) ==
    /\ n <= vaulted
    /\ Credit(p, n)
    /\ vaulted' = vaulted - n
    /\ UNCHANGED <<destroyed, supply, clock>>

\* The challenger's stake is burned (back is 0), or the slash is, and the stake goes
\* back to the challenger.
resolve_dispute(p, burn, back) ==
    /\ burn + back <= vaulted
    /\ destroyed + burn <= MaxDestroyed
    /\ Credit(p, back)
    /\ vaulted' = vaulted - burn - back
    /\ supply' = supply - burn
    /\ destroyed' = destroyed + burn
    /\ UNCHANGED clock

VaultNext ==
    \E p \in People :
        \/ \E n \in Stakes : lock(p, n) \/ unlock(p, n)
        \/ \E burn, back \in Stakes \union {0} : resolve_dispute(p, burn, back)

Next ==
    \/ EmissionsNext /\ UNCHANGED <<pitVars, vaultVars>>
    \/ PitNext /\ UNCHANGED <<emissionVars, vaultVars>>
    \/ VaultNext /\ UNCHANGED <<emissionVars, pitVars>>
    \/ Tick /\ UNCHANGED <<emissionVars, pitVars, vaultVars>>

Spec == Init /\ [][Next]_supplyVars

TypeOK ==
    /\ TokenTypeOK /\ EmissionsTypeOK /\ PitTypeOK
    /\ vaulted \in Nat /\ destroyed \in Nat

\* What the epochs minted.
Minted == [e \in DOMAIN epochs |-> epochs[e].minted]

\* The ledgers of the program agree with each other and with the mint after any
\* interleaving of claims, epochs, bonds, buybacks, stakes and disputes: the claims
\* paid are the epochs' mints, these the total token_config keeps, the supply is the
\* genesis plus that total less the burns of the fund's ledger and of the disputes,
\* and every unit of it is in a wallet, a bond vault, the fund's vault or the two.
LedgersAgree ==
    /\ cumulative = SumOver(claims)
    /\ cumulative = SumOver(Minted)
    /\ supply + pit.burned + destroyed = SumOver([p \in People |-> Genesis]) + cumulative
    /\ supply = SumOver(clank) + SumOver(bonded) + pit_clank + vaulted
=============================================================================
