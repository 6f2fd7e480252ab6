------------------------------ MODULE Emissions ------------------------------
(***************************************************************************)
(* The work emissions of the clanker5000 program: a robot's owner is       *)
(* minted $CLANK for a job when the oracle verified it, a client vouched   *)
(* for the robot, the owner has bonded CLANK, and the epoch's cap and the  *)
(* emission bucket have room.  Reputation, the attestation consumer and    *)
(* the operator bonds are modelled as far as that decision reads them.     *)
(* One action is one instruction, all or nothing.  "fault:" marks wrong    *)
(* variants.  Amounts stay far below 2^64, so widths are left out.         *)
(***************************************************************************)
EXTENDS ClankToken

CONSTANTS
    Agents,             \* agent ids
    NoOwner,            \* the owner of an agent that is not registered
    Jobs,               \* job hashes
    Keys,               \* governance, oracle and facilitator keys
    Values,             \* values a feedback may carry
    MaxFeedback,        \* bound: feedback per agent
    Bonds,              \* amounts bonded at once
    Epoch0,             \* [cap, reward] init_token opens epoch 0 with
    Schedules,          \* [min_bond, len, num, den] governance may set
    LastEpoch,          \* bound: the last epoch rolled to
    EMISSION_BUCKET

BaseParts == 10000      \* basis points of one
StakeBonus == 2500      \* the largest bonus, in basis points

ASSUME EmissionsAssumption ==
    /\ IsFiniteSet(Agents) /\ IsFiniteSet(Jobs) /\ NoOwner \notin People
    /\ Epoch0 \in [cap : Nat, reward : Nat] /\ Epoch0.cap <= EMISSION_BUCKET
    /\ EMISSION_BUCKET \in Nat /\ LastEpoch \in Nat /\ MaxFeedback \in Nat
    /\ Bonds \subseteq Nat /\ Values \subseteq Int
    /\ Schedules \subseteq [min_bond : Nat, len : Nat \ {0}, num : Nat, den : Nat \ {0}]
    /\ \A s \in Schedules : s.num <= s.den

VARIABLES
    owner,          \* agent -> agent.owner
    reputation,     \* agent -> [count, sum]
    feedback,       \* the (agent, client) pairs of the Feedback accounts
    attested,       \* job -> its attestation: "none", "verified", "rejected"
    authority,      \* role -> the key that holds it
    schedule,       \* the tunable part of token_config
    current_epoch,  \* token_config.current_epoch
    cumulative,     \* token_config.cumulative_minted
    epochs,         \* epoch -> [cap, minted, reward, start]
    bonded,         \* agent -> operator_bond.bonded, which is its bond vault (0: no account)
    claims          \* <<agent, job>> -> reward of the JobClaim account (0: none)

repVars == <<owner, reputation, feedback>>
tokenConfig == <<schedule, current_epoch, cumulative>>
emissionVars == <<repVars, attested, authority, tokenConfig, epochs, bonded, claims>>

Roles == {"governance", "oracle_owner", "forwarder", "facilitator"}

EmissionsInit ==
    /\ owner = [a \in Agents |-> NoOwner]
    /\ reputation = [a \in Agents |-> [count |-> 0, sum |-> 0]]
    /\ feedback = {}
    /\ attested = [j \in Jobs |-> "none"]
    /\ authority \in [Roles -> Keys]
    /\ schedule \in Schedules
    /\ current_epoch = 0 /\ cumulative = 0
    /\ epochs = [e \in {0} |-> [cap |-> Epoch0.cap, minted |-> 0,
                                reward |-> Epoch0.reward, start |-> 0]]
    /\ bonded = [a \in Agents |-> 0]
    /\ claims = [c \in Agents \X Jobs |-> 0]

-----------------------------------------------------------------------------
\* Reputation and attestations.

register_agent(a, p) ==
    /\ owner[a] = NoOwner                       \* init of the agent PDA
    /\ owner' = [owner EXCEPT ![a] = p]
    /\ UNCHANGED <<reputation, feedback, attested, authority, tokenConfig, epochs,
                   bonded, claims, tokenVars>>

give_feedback(a, client, v) ==
    /\ owner[a] # NoOwner
    /\ client # owner[a]
    /\ reputation[a].count < MaxFeedback
    /\ feedback' = feedback \union {<<a, client>>}
    /\ reputation' = [reputation EXCEPT ![a] = [count |-> @.count + 1, sum |-> @.sum + v]]
    /\ UNCHANGED <<owner, attested, authority, tokenConfig, epochs, bonded, claims, tokenVars>>

\* The attestation is an upsert: a later report overwrites the verdict.
write_attestation(k, j, verdict) ==
    /\ k = authority["forwarder"]
    /\ attested' = [attested EXCEPT ![j] = verdict]
    /\ UNCHANGED <<repVars, authority, tokenConfig, epochs, bonded, claims, tokenVars>>

Handover(k, k2, role, held) ==
    /\ k = authority[held]
    /\ authority' = [authority EXCEPT ![role] = k2]
    /\ UNCHANGED <<repVars, attested, tokenConfig, epochs, bonded, claims, tokenVars>>

set_forwarder(k, k2) == Handover(k, k2, "forwarder", "oracle_owner")

set_token_authority(k, k2) == Handover(k, k2, "governance", "governance")

-----------------------------------------------------------------------------
\* Bonds, claims and epochs.

bond_operator(a, n) ==
    /\ n > 0
    /\ owner[a] # NoOwner
    /\ Debit(owner[a], n)
    /\ bonded' = [bonded EXCEPT ![a] = @ + n]
    /\ UNCHANGED <<repVars, attested, authority, tokenConfig, epochs, claims, supply, clock>>

Least(x, y) == IF x <= y THEN x ELSE y

Above(x, y) == IF x >= y THEN x - y ELSE 0      \* saturating_sub

UncappedReward(base, bond, min_bond, remaining) ==  \* fault: the cap is only a gate
    IF remaining = 0 THEN 0 ELSE base

emission_reward(base, bond, min_bond, remaining) ==
    LET excess == Above(Least(bond, 4 * min_bond), min_bond)
        bonus  == IF min_bond = 0 THEN 0
                  ELSE (base * excess * StakeBonus) \div (3 * min_bond * BaseParts)
    IN  Least(base + bonus, remaining)

\* The links between physical work and a mint, but for the cap.
Earned(a, j) ==
    /\ attested[j] = "verified"
    /\ \E client \in People \ {owner[a]} : <<a, client>> \in feedback
    /\ bonded[a] > 0                            \* the OperatorBond account exists
    /\ bonded[a] >= schedule.min_bond
    /\ reputation[a].count = 0 \/ reputation[a].sum >= 0

Reward(a) ==
    LET ep == epochs[current_epoch]
    IN  emission_reward(ep.reward, bonded[a], schedule.min_bond, Above(ep.cap, ep.minted))

UnclaimedAlways(a, j) == TRUE  \* fault: the claim account may exist already

Unclaimed(a, j) == claims[<<a, j>>] = 0         \* init of the JobClaim PDA

\* The operator's token account is any account of the mint: p need not be the owner.
accrue_emissions(k, a, j, p) ==
    /\ k = authority["facilitator"]
    /\ owner[a] # NoOwner
    /\ Earned(a, j)
    /\ Unclaimed(a, j)
    /\ Reward(a) > 0
    /\ cumulative + Reward(a) <= EMISSION_BUCKET
    /\ Credit(p, Reward(a))
    /\ supply' = supply + Reward(a)
    /\ epochs' = [epochs EXCEPT ![current_epoch].minted = @ + Reward(a)]
    /\ cumulative' = cumulative + Reward(a)
    /\ claims' = [claims EXCEPT ![<<a, j>>] = Reward(a)]
    /\ UNCHANGED <<repVars, attested, authority, schedule, current_epoch, bonded, clock>>

Decayed(n) == (n * schedule.num) \div schedule.den

SkippedEpoch == current_epoch + 2  \* fault: the next epoch's id is not compared

NextEpoch == current_epoch + 1

roll_epoch ==
    LET cur  == epochs[current_epoch]
        next == [cap |-> Decayed(cur.cap), minted |-> 0,
                 reward |-> Decayed(cur.reward), start |-> clock]
    IN  /\ current_epoch < LastEpoch
        /\ clock >= cur.start + schedule.len
        /\ epochs' = [e \in DOMAIN epochs \union {NextEpoch} |->
                         IF e \in DOMAIN epochs THEN epochs[e] ELSE next]
        /\ current_epoch' = NextEpoch
        /\ UNCHANGED <<repVars, attested, authority, schedule, cumulative, bonded, claims,
                       tokenVars>>

set_emission_params(k, s) ==
    /\ k = authority["governance"]
    /\ schedule' = s
    /\ UNCHANGED <<repVars, attested, authority, current_epoch, cumulative, epochs,
                   bonded, claims, tokenVars>>

EmissionsNext ==
    \/ \E a \in Agents :
          \/ \E p \in People : register_agent(a, p)
          \/ \E p \in People, v \in Values : give_feedback(a, p, v)
          \/ \E n \in Bonds : bond_operator(a, n)
          \/ \E k \in Keys, j \in Jobs, p \in People : accrue_emissions(k, a, j, p)
    \/ \E k \in Keys :
          \/ \E j \in Jobs, v \in {"verified", "rejected"} : write_attestation(k, j, v)
          \/ \E k2 \in Keys : set_forwarder(k, k2) \/ set_token_authority(k, k2)
          \/ \E s \in Schedules : set_emission_params(k, s)
    \/ roll_epoch

-----------------------------------------------------------------------------
EpochAccounts == [cap : Nat, minted : Nat, reward : Nat, start : Nat]

EmissionsTypeOK ==
    /\ owner \in [Agents -> People \union {NoOwner}]
    /\ reputation \in [Agents -> [count : Nat, sum : Int]]
    /\ feedback \subseteq Agents \X People
    /\ attested \in [Jobs -> {"none", "verified", "rejected"}]
    /\ authority \in [Roles -> Keys]
    /\ schedule \in Schedules
    /\ current_epoch \in Nat /\ cumulative \in Nat
    /\ epochs \in [0..current_epoch -> EpochAccounts]
    /\ bonded \in [Agents -> Nat]
    /\ claims \in [Agents \X Jobs -> Nat]

\* The published taper is a hard ceiling, whatever governance sets, however
\* epochs and claims interleave: no epoch mints more than its cap, no later
\* epoch has a larger cap or reward, the bucket is never exceeded, and no job
\* earns more than 125% of what a job of the first epoch earns.
ScheduleHolds ==
    /\ \A e \in DOMAIN epochs : epochs[e].minted <= epochs[e].cap
    /\ \A e \in DOMAIN epochs \ {0} :
          /\ epochs[e].cap <= epochs[e - 1].cap
          /\ epochs[e].reward <= epochs[e - 1].reward
    /\ cumulative <= EMISSION_BUCKET
    /\ \A c \in DOMAIN claims : 4 * claims[c] <= 5 * Epoch0.reward
=============================================================================
