---------------------------- MODULE MCRaceEscrow ----------------------------
(* Two races over two drivers.  A stake of 4 cannot be matched: twice it    *)
(* is more than U64Max = 7.  A driver with 3 can pay the small stakes only.*)
EXTENDS RaceEscrow

MCStakes == {0, 1, 4}
MCFees == {0, 1}
MCBalances == {3, 6}
=============================================================================
