------------------------------ MODULE MCUiCommands ------------------------------
(* Small instances of UiCommands. *)
EXTENDS UiCommands

CONSTANTS path, webToken
=============================================================================
