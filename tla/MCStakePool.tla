---------------------------- MODULE MCStakePool ----------------------------
(* Two stakers who stake and leave in steps of one or two while the bucket *)
(* is topped up: positions and fundings that do not divide evenly.         *)
EXTENDS StakePool

MCStakes == {0, 1, 2}
MCCooldowns == {0, 1}
MCFundings == {0, 2, 3}
=============================================================================
