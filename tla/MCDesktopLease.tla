------------------------------- MODULE MCDesktopLease -------------------------------
(* Two Desktop processes. *)
EXTENDS DesktopLease

CONSTANTS d1, d2
=============================================================================
