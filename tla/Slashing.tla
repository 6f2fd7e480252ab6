------------------------------ MODULE Slashing ------------------------------
(***************************************************************************)
(* Verifier bonds and disputes of the clanker5000 program.  A verifier     *)
(* bonds CLANK; anyone may dispute the verdict on a job against a bond of  *)
(* their own; after the window the resolver upholds the dispute (part of   *)
(* the verifier's bond is burned, the challenger's comes back) or rejects  *)
(* it (the challenger's bond is burned).  All bonds share one vault.  One  *)
(* action is one instruction, all or nothing.  "fault:" marks wrong        *)
(* variants, as in RaceEscrow.                                             *)
(***************************************************************************)
EXTENDS Integers, FiniteSets, Sums

CONSTANTS
    People,         \* wallets; each may verify and challenge
    Keys,           \* keys that may be the resolver
    Jobs,           \* job hashes
    NoDispute,      \* value of a dispute account that is not initialised
    Policies,       \* values init_slashing and set_slash_params may set
    Amounts,        \* amounts bonded or unbonded at once
    Endowment,      \* CLANK each person has at first
    LastTick        \* bound: where the clock stops

WHOLE == 10000    \* a whole bond in basis points
Policy == [dispute_window_secs : Nat, slash_bps : 0..WHOLE, challenger_bond : Nat]

ASSUME SlashingAssumption ==
    /\ IsFiniteSet(People) /\ IsFiniteSet(Jobs)
    /\ Policies \subseteq Policy
    /\ Amounts \subseteq Nat
    /\ Endowment \in Nat /\ LastTick \in Nat

Dispute == [challenger : People, challenger_bond : Nat, slash_amount : Nat,
            opened_at : Nat, resolved : BOOLEAN, upheld : BOOLEAN]
ASSUME NoDisputeAssumption == NoDispute \notin Dispute

VARIABLES
    policy,         \* slash_config: window, slash_bps, challenger_bond
    authority,      \* slash_config.authority, the resolver
    known,          \* people with a verifier_bond account
    bonded,         \* verifier -> verifier_bond.bonded
    slashed,        \* verifier -> verifier_bond.slashed
    open_disputes,  \* verifier -> verifier_bond.open_disputes
    disputes,       \* verifier -> job -> dispute account, or NoDispute
    slash_vault,    \* CLANK in the vault
    clank,          \* person -> CLANK in the wallet
    now             \* Clock::get()

config == <<policy, authority>>
vars == <<config, known, bonded, slashed, open_disputes, disputes, slash_vault, clank, now>>

Open(v, j) == disputes[v][j] # NoDispute /\ ~disputes[v][j].resolved
OpenAgainst(v) == {j \in Jobs : Open(v, j)}

Init ==
    /\ policy \in Policies /\ authority \in Keys
    /\ known = {}
    /\ bonded = [v \in People |-> 0] /\ slashed = [v \in People |-> 0]
    /\ open_disputes = [v \in People |-> 0]
    /\ disputes = [v \in People |-> [j \in Jobs |-> NoDispute]]
    /\ slash_vault = 0
    /\ clank = [p \in People |-> Endowment]
    /\ now = 0

-----------------------------------------------------------------------------
bond_verifier(v, n) ==
    /\ n > 0
    /\ n <= clank[v]                            \* token program: funds
    /\ clank' = [clank EXCEPT ![v] = @ - n]
    /\ slash_vault' = slash_vault + n
    /\ bonded' = [bonded EXCEPT ![v] = @ + n]
    /\ known' = known \cup {v}
    /\ UNCHANGED <<config, slashed, open_disputes, disputes, now>>

MayUnbondAny(v, n) ==  \* fault: open disputes do not matter
    n > 0 /\ n <= bonded[v]

MayUnbond(v, n) ==
    /\ n > 0 /\ n <= bonded[v]
    /\ open_disputes[v] = 0

unbond_verifier(v, n) ==
    /\ MayUnbond(v, n)
    /\ n <= slash_vault                         \* token program: funds
    /\ clank' = [clank EXCEPT ![v] = @ + n]
    /\ slash_vault' = slash_vault - n
    /\ bonded' = [bonded EXCEPT ![v] = @ - n]
    /\ UNCHANGED <<config, known, slashed, open_disputes, disputes, now>>

\* slash_bps of the bond, floored.
slash_amount(n, slash_bps) == (n * slash_bps) \div WHOLE

open_dispute(c, v, j) ==
    /\ v \in known
    /\ disputes[v][j] = NoDispute               \* init
    /\ policy.challenger_bond <= clank[c]       \* token program: funds
    /\ clank' = [clank EXCEPT ![c] = @ - policy.challenger_bond]
    /\ slash_vault' = slash_vault + policy.challenger_bond
    /\ open_disputes' = [open_disputes EXCEPT ![v] = @ + 1]
    /\ disputes' = [disputes EXCEPT ![v][j] =
           [challenger |-> c, challenger_bond |-> policy.challenger_bond,
            slash_amount |-> slash_amount(bonded[v], policy.slash_bps),
            opened_at |-> now, resolved |-> FALSE, upheld |-> FALSE]]
    /\ UNCHANGED <<config, known, bonded, slashed, now>>

MayResolveAgain(v, j) ==  \* fault: a resolved dispute is resolved once more
    /\ disputes[v][j] # NoDispute
    /\ now >= disputes[v][j].opened_at + policy.dispute_window_secs

MayResolve(v, j) ==
    /\ Open(v, j)
    /\ now >= disputes[v][j].opened_at + policy.dispute_window_secs

\* The slash of an upheld dispute, clamped to what is left of the bond.
SlashOf(v, j) ==
    IF disputes[v][j].slash_amount <= bonded[v] THEN disputes[v][j].slash_amount
    ELSE bonded[v]

BountyFor(v, j) == disputes[v][j].challenger_bond + SlashOf(v, j)  \* fault: pays the slash

\* What the challenger of an upheld dispute gets from the vault.
ReturnFor(v, j) == disputes[v][j].challenger_bond

CountAfter(v, upheld) == IF open_disputes[v] > 0 THEN open_disputes[v] - 1 ELSE 0

Resolved(v, j, upheld) ==
    /\ disputes' = [disputes EXCEPT ![v][j] = [@ EXCEPT !.resolved = TRUE, !.upheld = upheld]]
    /\ open_disputes' = [open_disputes EXCEPT ![v] = CountAfter(v, upheld)]

uphold_dispute(k, v, j) ==
    /\ k = authority
    /\ MayResolve(v, j)
    /\ SlashOf(v, j) + disputes[v][j].challenger_bond <= slash_vault
    /\ slash_vault' = slash_vault - (SlashOf(v, j) + disputes[v][j].challenger_bond)
    /\ bonded' = [bonded EXCEPT ![v] = @ - SlashOf(v, j)]
    /\ slashed' = [slashed EXCEPT ![v] = @ + SlashOf(v, j)]
    /\ clank' = [clank EXCEPT ![disputes[v][j].challenger] = @ + ReturnFor(v, j)]
    /\ Resolved(v, j, TRUE)
    /\ UNCHANGED <<config, known, now>>

reject_dispute(k, v, j) ==
    /\ k = authority
    /\ MayResolve(v, j)
    /\ disputes[v][j].challenger_bond <= slash_vault
    /\ slash_vault' = slash_vault - disputes[v][j].challenger_bond
    /\ Resolved(v, j, FALSE)
    /\ UNCHANGED <<config, known, bonded, slashed, clank, now>>

set_slash_params(k, p, new_resolver) ==
    /\ k = authority
    /\ policy' = p /\ authority' = new_resolver
    /\ UNCHANGED <<known, bonded, slashed, open_disputes, disputes, slash_vault, clank, now>>

Tick ==
    /\ now < LastTick
    /\ now' = now + 1
    /\ UNCHANGED <<config, known, bonded, slashed, open_disputes, disputes, slash_vault, clank>>

Next ==
    \/ \E v \in People, n \in Amounts : bond_verifier(v, n) \/ unbond_verifier(v, n)
    \/ \E v \in People, j \in Jobs :
          \/ \E c \in People : open_dispute(c, v, j)
          \/ \E k \in Keys : uphold_dispute(k, v, j) \/ reject_dispute(k, v, j)
    \/ \E k, new_resolver \in Keys, p \in Policies : set_slash_params(k, p, new_resolver)
    \/ Tick

Spec == Init /\ [][Next]_vars
-----------------------------------------------------------------------------
\* Type correctness of the accounts.
TypeOK ==
    /\ policy \in Policies /\ authority \in Keys
    /\ known \subseteq People
    /\ bonded \in [People -> Nat] /\ slashed \in [People -> Nat]
    /\ open_disputes \in [People -> Nat]
    /\ disputes \in [People -> [Jobs -> Dispute \cup {NoDispute}]]
    /\ slash_vault \in Nat /\ clank \in [People -> Nat] /\ now \in Nat

\* The stakes of the open disputes, by verifier and job: all, and those of person p.
Posted == [d \in People \X Jobs |->
              IF Open(d[1], d[2]) THEN disputes[d[1]][d[2]].challenger_bond ELSE 0]
PostedBy(p) == [d \in People \X Jobs |->
              IF Open(d[1], d[2]) /\ disputes[d[1]][d[2]].challenger = p
              THEN disputes[d[1]][d[2]].challenger_bond ELSE 0]

\* The one vault holds every bond and the stakes of every open dispute: no burn,
\* return or unbonding draws on somebody else's, and none is ever refused.
VaultBacksBonds == slash_vault = SumOver(bonded) + SumOver(Posted)

\* open_disputes counts the open disputes, so its saturating_sub never saturates.
DisputesCounted ==
    \A v \in People : open_disputes[v] = Cardinality(OpenAgainst(v))

\* "You can't exit ahead of a slash" (lib.rs line 1268): while a dispute is open,
\* what a verifier loses of the bond is slashed.
NoExitAheadOfSlash ==
    [][\A v \in People : OpenAgainst(v) # {} =>
          bonded'[v] + slashed'[v] >= bonded[v] + slashed[v]]_vars

\* What a person has: the wallet, the bond, and the stakes in open disputes.
Worth(p) == clank[p] + bonded[p] + SumOver(PostedBy(p))

\* Nobody ever gains CLANK by bonds and disputes: "there is no incentive to
\* false-accuse" (lib.rs lines 1327-1328), nor to collude.
NobodyGains == [][\A p \in People : Worth(p)' <= Worth(p)]_vars
=============================================================================
