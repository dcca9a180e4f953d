-------------------------------- MODULE MCUserIntent --------------------------------
(* The instances of MCMinerLifecycle with the user's memory added. *)
EXTENDS MCMinerLifecycle, UserIntent
=============================================================================
