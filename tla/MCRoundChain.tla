---------------------------- MODULE MCRoundChain ----------------------------
(* One round, two wallets, two requests at a time, one crash or lost answer; *)
(* a second race id for an open that is repeated or overtaken.               *)
EXTENDS RoundChain, TLC

MCStakes == {1}
MCFees == {0}
MCBalances == {1}
MCPayments == {"x402"}
MCSymmetry == Permutations(Drivers) \cup Permutations(Requests)
=============================================================================
