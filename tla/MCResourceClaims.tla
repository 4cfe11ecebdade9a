-------------------------- MODULE MCResourceClaims --------------------------
(***************************************************************************)
(* ResourceClaims for TLC: two deployments that need the same device, and  *)
(* together more of the shared slot than the node has.  They are alike, so *)
(* that exchanging them is a symmetry.                                     *)
(***************************************************************************)
EXTENDS ResourceClaims

CONSTANTS first, second

MCDevices(d) == {"gpu"}

MCAmount(d) == 2

Alike == Permutations({first, second})
=============================================================================
