--------------------------- MODULE MCNodeInventory ---------------------------
(***************************************************************************)
(* NodeInventory for TLC.                                                  *)
(***************************************************************************)
EXTENDS NodeInventory
=============================================================================
