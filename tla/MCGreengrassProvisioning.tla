----------------------- MODULE MCGreengrassProvisioning ------------------------
(***************************************************************************)
(* Two checkouts and three runs, so that one of the checkouts is used      *)
(* twice, before or after the other.  Nothing tells the certificates       *)
(* apart, and no definition chooses one of them.                           *)
(***************************************************************************)
EXTENDS GreengrassProvisioning, TLC

CONSTANTS k1, k2, x1, x2, x3

Symmetry == Permutations({x1, x2, x3})
===============================================================================
