------------------------------ MODULE MCLinuxElevation ------------------------------
(* Small instances of LinuxElevation. *)
EXTENDS LinuxElevation

CONSTANTS a1, a2, k1
=============================================================================
