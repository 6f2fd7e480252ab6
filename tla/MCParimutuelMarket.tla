------------------------- MODULE MCParimutuelMarket -------------------------
(* Three bettors with three humans behind them and two lanes.  Amounts 1   *)
(* and 2 make shares that do not divide, so the flooring matters.          *)
EXTENDS ParimutuelMarket, TLC

MCAmounts == {0, 1, 2, 3}
MCSymmetry == Permutations(Humans)
=============================================================================
