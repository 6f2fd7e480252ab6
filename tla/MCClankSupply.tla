--------------------------- MODULE MCClankSupply ---------------------------
(* One robot, two jobs, its owner and a client who is the keeper: an epoch  *)
(* whose cap pays one job and part of a second, a bucket the second epoch   *)
(* exhausts, bonds below, at and above the saturation of the bonus.         *)
EXTENDS ClankSupply, TLC

MCEpoch0 == [cap |-> 7, reward |-> 4]
MCSchedules == {[min_bond |-> 1, len |-> 1, num |-> 1, den |-> 2],
                [min_bond |-> 0, len |-> 2, num |-> 1, den |-> 1]}
MCSymmetry == Permutations(Jobs)
MCValues == {1, -1}
MCPolicies == {[keeper |-> "keeper", cheap |-> 1, rich |-> 3, max_per_call |-> 2,
                interval |-> 1, burn_bps |-> 5000]}
=============================================================================
