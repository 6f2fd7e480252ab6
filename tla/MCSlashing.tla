----------------------------- MODULE MCSlashing -----------------------------
(* Two people who verify and challenge, two jobs; slashes of which two are  *)
(* more than the bond, and a policy that changes while disputes are open.   *)
EXTENDS Slashing, TLC

MCPolicies == {[dispute_window_secs |-> 1, slash_bps |-> 6000, challenger_bond |-> 1],
               [dispute_window_secs |-> 0, slash_bps |-> 10000, challenger_bond |-> 2]}
MCAmounts == {0, 2}
MCSymmetry == Permutations(People) \cup Permutations(Jobs)
=============================================================================
