--------------------------- MODULE MCGatewayRollout ---------------------------
(***************************************************************************)
(* Instances of GatewayRollout for TLC: the nodes are model values, the    *)
(* readiness thresholds those of a scope of two members.                   *)
(***************************************************************************)
EXTENDS GatewayRollout

OneOrAll == {1, Cardinality(Nodes)}

=============================================================================
