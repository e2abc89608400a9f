--------------------------- MODULE MCResourcePool ---------------------------
(***************************************************************************)
(* Instances of ResourcePool for TLC.                                      *)
(***************************************************************************)
EXTENDS ResourcePool
=============================================================================
