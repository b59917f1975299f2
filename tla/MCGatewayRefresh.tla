-------------------------- MODULE MCGatewayRefresh --------------------------
(***************************************************************************)
(* Provider names, configurations and loads are interchangeable; calls are *)
(* not, some are pinned.                                                   *)
(***************************************************************************)
EXTENDS GatewayRefresh, TLC

Symmetric == Permutations(Name) \cup Permutations(Cfg) \cup Permutations(Load)
=============================================================================
