------------------------------- MODULE MCPowerAction -------------------------------
(* The instances of MCMinerLifecycle with the power action. *)
EXTENDS MCMinerLifecycle, PowerAction
=============================================================================
