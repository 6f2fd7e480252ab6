------------------------------ MODULE PitFund ------------------------------
(***************************************************************************)
(* The Pit Fund of the clanker5000 program: anyone tops it up with USDC,   *)
(* and one permissioned market maker, the keeper, fills buybacks: CLANK    *)
(* in, USDC out, part of the CLANK burned.  How much a buyback may spend   *)
(* falls with the price-to-fees ratio the keeper reports, and buybacks are *)
(* spaced by a minimal interval.  "fault:" marks wrong variants.           *)
(***************************************************************************)
EXTENDS ClankToken, Sequences

CONSTANTS
    Governors,      \* keys that may hold the fund's authority
    Policies,       \* [keeper, cheap, rich, max_per_call, interval, burn_bps]
    Ratios,         \* price-to-fees ratios (x100) the keeper may report
    Prices,         \* limits max_price_usdc6 of a buyback
    Spendings,      \* usdc_out of a buyback
    Fills,          \* clank_in of a buyback
    Intakes,        \* amounts the fund is topped up with
    MaxIntake,      \* bound: the sum of the top-ups
    OneClank        \* base units of one CLANK (10^9 in the program)

\* What init_pit_fund and set_buyback_params require of a policy.
PolicyOk(p) == p.rich > p.cheap /\ p.burn_bps <= 10000 /\ p.interval >= 0

ASSUME PitAssumption ==
    /\ IsFiniteSet(Policies)
    /\ Policies \subseteq [keeper : People, cheap : Nat, rich : Nat, max_per_call : Nat,
                           interval : Nat, burn_bps : Nat]
    /\ Ratios \subseteq Nat /\ Prices \subseteq Nat /\ Intakes \subseteq Nat
    /\ Spendings \subseteq Nat /\ Fills \subseteq Nat
    /\ MaxIntake \in Nat /\ OneClank \in Nat \ {0}

VARIABLES
    pit,            \* authority, policy, intake, bought, burned and last of pit_fund
    pit_usdc,       \* USDC in the fund's vault
    pit_clank,      \* CLANK in the fund's vault
    buybacks        \* history: of each buyback its time, and the USDC paid out up to it

pitVars == <<pit, pit_usdc, pit_clank, buybacks>>

PitInit ==
    /\ \E g \in Governors, p \in Policies :
          /\ PolicyOk(p)
          /\ pit = [authority |-> g, policy |-> p, intake |-> 0, bought |-> 0,
                    burned |-> 0, last |-> 0]
    /\ pit_usdc = 0 /\ pit_clank = 0 /\ buybacks = <<>>

fund_pit_fund(n) ==
    /\ n > 0
    /\ pit.intake + n <= MaxIntake
    /\ pit_usdc' = pit_usdc + n
    /\ pit' = [pit EXCEPT !.intake = @ + n]
    /\ UNCHANGED <<pit_clank, buybacks, tokenVars>>

buyback_allowance(budget, pf, cheap, rich) ==
    IF rich <= cheap \/ pf >= rich THEN 0
    ELSE IF pf <= cheap THEN budget
         ELSE (budget * (rich - pf)) \div (rich - cheap)

CooledDownNever == TRUE  \* fault: the interval is not enforced

CooledDown == clock >= pit.last + pit.policy.interval

\* What was paid out so far.
Spent == IF buybacks = <<>> THEN 0 ELSE buybacks[Len(buybacks)].total

\* The share of n CLANK bought that is burned.
Burned(n) == (n * pit.policy.burn_bps) \div 10000

execute_buyback(k, usdc_out, clank_in, pf, max_price) ==
    LET allowed == buyback_allowance(pit.policy.max_per_call, pf, pit.policy.cheap,
                                     pit.policy.rich)
    IN  /\ k = pit.policy.keeper
        /\ usdc_out > 0 /\ clank_in > 0
        /\ CooledDown
        /\ allowed > 0 /\ usdc_out <= allowed
        /\ (usdc_out * OneClank) \div clank_in <= max_price
        /\ Debit(k, clank_in)
        /\ usdc_out <= pit_usdc                 \* token program: funds
        /\ pit_usdc' = pit_usdc - usdc_out
        /\ buybacks' = Append(buybacks, [at |-> clock, total |-> Spent + usdc_out])
        /\ pit_clank' = pit_clank + clank_in - Burned(clank_in)
        /\ supply' = supply - Burned(clank_in)
        /\ pit' = [pit EXCEPT !.bought = @ + clank_in, !.burned = @ + Burned(clank_in), !.last = clock]
        /\ UNCHANGED clock

set_buyback_params(g, p) ==
    /\ g = pit.authority
    /\ PolicyOk(p)
    /\ pit' = [pit EXCEPT !.policy = p]
    /\ UNCHANGED <<pit_usdc, pit_clank, buybacks, tokenVars>>

PitNext ==
    \/ \E n \in Intakes : fund_pit_fund(n)
    \/ \E k \in People, u \in Spendings, c \in Fills, pf \in Ratios, m \in Prices :
          execute_buyback(k, u, c, pf, m)
    \/ \E g \in Governors, p \in Policies : set_buyback_params(g, p)

-----------------------------------------------------------------------------
PitTypeOK ==
    /\ pit \in [authority : Governors, policy : Policies, intake : Nat, bought : Nat,
                burned : Nat, last : Nat]
    /\ pit_usdc \in Nat /\ pit_clank \in Nat
    /\ buybacks \in Seq([at : Nat, total : Nat])

LargestCall == Max({p.max_per_call : p \in Policies})
ShortestInterval == Min({p.interval : p \in Policies})

\* However governance retunes the policy and whoever the keeper is, what leaves the
\* fund after a buyback, until any later one, stays within one largest call per
\* shortest interval between the two: the cap per call and the interval bound the
\* pace together, and no idle time lets a burst through.
SpendingPaced ==
    \A i, j \in DOMAIN buybacks : i < j =>
        (buybacks[j].total - buybacks[i].total) * ShortestInterval
            <= LargestCall * (buybacks[j].at - buybacks[i].at)
=============================================================================
