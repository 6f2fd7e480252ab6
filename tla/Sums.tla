-------------------------------- MODULE Sums --------------------------------
(***************************************************************************)
(* Totals of ledgers: the sum of a function over its domain, with the fold *)
(* of the community modules.  The ledger modules state what they reconcile *)
(* with these two operators; module SumLemmas proves how they behave.      *)
(***************************************************************************)
EXTENDS Integers, FiniteSetsExt

\* The sum of f[x] over the x of S.
SumOn(f, S) == MapThenSumSet(LAMBDA x : f[x], S)

SumOver(f) == SumOn(f, DOMAIN f)
=============================================================================
